---- MODULE Spec2Model ----
(***************************************************************************)
(* Model of src/app.py (the zeno lead capture backend): the budget and     *)
(* estimate engine (parse_inr_string, budget_to_desc,                      *)
(* materialize_budget_amount, the four table builders,                     *)
(* build_estimate_table_only), the store and mail fallbacks                *)
(* (save_doc_resilient, send_sales_email) and the three routes built on    *)
(* them (/summarize, /save_user_data, /upload_cv).                         *)
(*                                                                         *)
(* A behaviour is one call: Init draws the function and its argument, the  *)
(* action of that function applies it.  A session is the exception: it     *)
(* makes several calls of build_estimate_table_only in one process.        *)
(*                                                                         *)
(* Python values are records [t, n, s]: t is the Python type, n the value  *)
(* of an int, s the text of a str.  A text is a sequence of fragments; a   *)
(* fragment is one character wherever the code looks at characters         *)
(* (parse_inr_string, the substring tests of budget_to_desc, int(), inr,   *)
(* allowed_file) and a whole word where the code only compares for         *)
(* equality (category, employee_size, row labels).  A call that raises     *)
(* returns Raise(e), and every caller propagates it the way the Python     *)
(* caller does.  What a call does to the outside world (inserts, sends,    *)
(* the file written) is returned as the list of its effects, in order.     *)
(***************************************************************************)
EXTENDS Integers, Sequences, FiniteSets, TLC

VARIABLES fn, arg, ret, pc

vars == <<fn, arg, ret, pc>>

(***************************************************************************)
(* Bounds of the model.                                                    *)
(***************************************************************************)
\* longest text over ParseAlphabet given to parse_inr_string
MaxLen == 4
\* most fragments concatenated into a budget label
MaxFrags == 3
\* largest base amount of the dense range 0..MaxBase given to the tables
MaxBase == 220
\* the multiples of 100 up to 100 * MaxHundreds are given to the tables as well
MaxHundreds == 40
\* most addresses in SALES_EMAILS
MaxRecipients == 2
\* invocations of the estimate pipeline in one session
MaxCalls == 3
\* largest bound of the small ranges 0 <= min <= max <= MaxRange given to
\* the materializer
MaxRange == 5

(***************************************************************************)
(* Python values and call results.                                         *)
(***************************************************************************)
None == [t |-> "None", n |-> 0, s |-> <<>>]

PyInt(k) == [t |-> "int", n |-> k, s |-> <<>>]

PyStr(q) == [t |-> "str", n |-> 0, s |-> q]

\* a non-empty list: truthy, unhashable, not convertible by int()
PyList == [t |-> "list", n |-> 0, s |-> <<>>]

Ok(v) == [raised |-> FALSE, exc |-> "", val |-> v]

Raise(e) == [raised |-> TRUE, exc |-> e, val |-> None]

\* Python truthiness: None, 0 and "" are falsy
Truthy(v) ==
  CASE v.t = "None" -> FALSE
    [] v.t = "int" -> v.n # 0
    [] v.t = "str" -> v.s # <<>>
    [] OTHER -> TRUE

(***************************************************************************)
(* Text helpers.                                                           *)
(***************************************************************************)
DigitChars == <<"0", "1", "2", "3", "4", "5", "6", "7", "8", "9">>

IsDigit(ch) == \E i \in 1..10 : DigitChars[i] = ch

DigitVal(ch) == (CHOOSE i \in 1..10 : DigitChars[i] = ch) - 1

\* sub in b
Contains(b, sub) ==
  \E i \in 1..(Len(b) - Len(sub) + 1) : SubSeq(b, i, i + Len(sub) - 1) = sub

\* str.replace(ch, "")
RECURSIVE Remove(_, _)
Remove(q, ch) ==
  IF q = <<>> THEN <<>>
  ELSE IF Head(q) = ch THEN Remove(Tail(q), ch)
  ELSE <<Head(q)>> \o Remove(Tail(q), ch)

IsSpace(ch) == ch \in {" ", "\t"}

RECURSIVE LStrip(_)
LStrip(q) ==
  IF q # <<>> /\ IsSpace(Head(q)) THEN LStrip(Tail(q)) ELSE q

RECURSIVE RStrip(_)
RStrip(q) ==
  IF q # <<>> /\ IsSpace(q[Len(q)]) THEN RStrip(SubSeq(q, 1, Len(q) - 1)) ELSE q

\* str.strip()
Strip(q) == RStrip(LStrip(q))

UpperChar(ch) ==
  CASE ch = "k" -> "K"
    [] ch = "l" -> "L"
    [] ch = "c" -> "C"
    [] ch = "r" -> "R"
    [] ch = "a" -> "A"
    [] ch = "h" -> "H"
    [] ch = "s" -> "S"
    [] ch = "o" -> "O"
    [] ch = "e" -> "E"
    [] ch = "x" -> "X"
    [] OTHER -> ch

\* str.upper()
Upper(q) == [i \in 1..Len(q) |-> UpperChar(q[i])]

RECURSIVE Pow10(_)
Pow10(d) == IF d = 0 THEN 1 ELSE 10 * Pow10(d - 1)

\* value of a run of decimal digits
RECURSIVE DigitsValue(_)
DigitsValue(q) ==
  IF q = <<>> THEN 0
  ELSE 10 * DigitsValue(SubSeq(q, 1, Len(q) - 1)) + DigitVal(q[Len(q)])

\* decimal digits of k >= 0
RECURSIVE DigitsOf(_)
DigitsOf(k) ==
  IF k < 10 THEN <<DigitChars[k + 1]>>
  ELSE DigitsOf(k \div 10) \o <<DigitChars[(k % 10) + 1]>>

\* Python round() of the float num / den (den > 0): to nearest, ties to the
\* even integer.  The float is taken to be the exact quotient, which is
\* what round() sees as long as the quotient is below 2^49 (about 5 * 10^14):
\* there a double still tells every multiple of 1/20 from a tie.
RoundHalfEven(num, den) ==
  LET q == num \div den
      r == num % den
  IN  IF 2 * r < den THEN q
      ELSE IF 2 * r > den THEN q + 1
      ELSE IF q % 2 = 0 THEN q ELSE q + 1

(***************************************************************************)
(* inr, lines 103-107.                                                     *)
(***************************************************************************)
\* format(k, ",") of k >= 0: digits in groups of three
RECURSIVE GroupThousands(_)
GroupThousands(q) ==
  IF Len(q) <= 3 THEN q
  ELSE GroupThousands(SubSeq(q, 1, Len(q) - 3)) \o <<",">> \o SubSeq(q, Len(q) - 2, Len(q))

FormatComma(k) ==
  IF k < 0 THEN <<"-">> \o GroupThousands(DigitsOf(-k))
  ELSE GroupThousands(DigitsOf(k))

\* int(v): an int is itself, a text must be an optionally signed digit run
IntOf(v) ==
  CASE v.t = "int" -> Ok(v.n)
    [] v.t = "str" ->
         LET neg == v.s # <<>> /\ Head(v.s) = "-"
             body == IF neg THEN Tail(v.s) ELSE v.s
         IN  IF body # <<>> /\ \A i \in 1..Len(body) : IsDigit(body[i])
             THEN Ok(IF neg THEN -DigitsValue(body) ELSE DigitsValue(body))
             ELSE Raise("ValueError")
    [] OTHER -> Raise("TypeError")

\* str(v) as f"{v}" prints it
StrOf(v) ==
  CASE v.t = "None" -> <<"N", "o", "n", "e">>
    [] v.t = "int" -> IF v.n < 0 THEN <<"-">> \o DigitsOf(-v.n) ELSE DigitsOf(v.n)
    [] v.t = "str" -> v.s
    [] OTHER -> <<"[", "]">>

inr(v) ==
  LET k == IntOf(v)
  IN  IF k.raised THEN <<"₹">> \o StrOf(v)
      ELSE <<"₹">> \o FormatComma(k.val)

(***************************************************************************)
(* parse_inr_string, lines 109-130.                                        *)
(***************************************************************************)
RECURSIVE NumRun(_)
NumRun(q) ==
  IF q = <<>> THEN <<>>
  ELSE IF IsDigit(Head(q)) \/ Head(q) = "." THEN <<Head(q)>> \o NumRun(Tail(q))
  ELSE NumRun(Tail(q))

RECURSIVE UnitRun(_)
UnitRun(q) ==
  IF q = <<>> THEN <<>>
  ELSE IF IsDigit(Head(q)) \/ Head(q) = "." THEN UnitRun(Tail(q))
  ELSE <<Head(q)>> \o UnitRun(Tail(q))

\* float(num) accepts digits with at most one point and at least one digit
FloatOk(num) ==
  /\ Len(SelectSeq(num, LAMBDA ch : ch = ".")) <= 1
  /\ \E i \in 1..Len(num) : IsDigit(num[i])

\* digits after the point
FracLen(num) ==
  IF \E i \in 1..Len(num) : num[i] = "."
  THEN Len(num) - (CHOOSE i \in 1..Len(num) : num[i] = ".")
  ELSE 0

\* a plausible slip: "LAC" left out of the lakh spellings
UnitMul_no_lac(unit) ==
  IF unit = <<"K">> THEN 1000
  ELSE IF unit \in {<<"L">>, <<"L", "A", "K", "H">>, <<"L", "A", "K", "H", "S">>}
  THEN 100000
  ELSE IF unit \in {<<"C", "R">>, <<"C", "R", "O", "R", "E">>} THEN 10000000
  ELSE 1

UnitMul(unit) ==
  IF unit = <<"K">> THEN 1000
  ELSE IF unit \in {<<"L">>, <<"L", "A", "K", "H">>, <<"L", "A", "K", "H", "S">>,
                    <<"L", "A", "C">>} THEN 100000
  ELSE IF unit \in {<<"C", "R">>, <<"C", "R", "O", "R", "E">>} THEN 10000000
  ELSE 1

parse_inr_string(v) ==
  IF v.t = "None" THEN Ok(None)
  ELSE
    LET clean == Remove(Remove(Remove(Upper(Strip(StrOf(v))), "₹"), ","), " ")
        num == NumRun(clean)
        unit == UnitRun(clean)
    IN  IF num = <<>> THEN Ok(None)
        ELSE IF ~FloatOk(num) THEN Raise("ValueError")
        ELSE Ok(PyInt(RoundHalfEven(DigitsValue(Remove(num, ".")) * UnitMul(unit),
                                    Pow10(FracLen(num)))))

(***************************************************************************)
(* budget_to_desc, lines 132-148.  state is the request record; a key the  *)
(* request does not carry reads as None (dict.get).                        *)
(***************************************************************************)
\* a plausible slip: the open-ended ">" test made before the bracket tests
ClassifyLabel_gt_first(t) ==
  LET p50K == parse_inr_string(PyStr(<<"5", "0", "K">>)).val.n
      p1L == parse_inr_string(PyStr(<<"1", "L">>)).val.n
      p5L == parse_inr_string(PyStr(<<"5", "L">>)).val.n
  IN  IF Contains(t, <<">">>)
      THEN Ok([type |-> "min", min |-> p5L])
      ELSE IF Contains(t, <<"0", " ", "<">>)
      THEN Ok([type |-> "range", min |-> 0, max |-> p50K])
      ELSE IF Contains(t, <<"₹", "5", "0", "K">>) /\ Contains(t, <<"₹", "1", "L">>)
      THEN Ok([type |-> "range", min |-> p50K, max |-> p1L])
      ELSE IF Contains(t, <<"₹", "1", "L">>) /\ Contains(t, <<"₹", "5", "L">>)
      THEN Ok([type |-> "range", min |-> p1L, max |-> p5L])
      ELSE Ok(None)

\* lines 139-148: the substring tests on b = str(b), in the order of the code
ClassifyLabel(t) ==
  LET p50K == parse_inr_string(PyStr(<<"5", "0", "K">>)).val.n
      p1L == parse_inr_string(PyStr(<<"1", "L">>)).val.n
      p5L == parse_inr_string(PyStr(<<"5", "L">>)).val.n
  IN  IF Contains(t, <<"0", " ", "<">>)
      THEN Ok([type |-> "range", min |-> 0, max |-> p50K])
      ELSE IF Contains(t, <<"₹", "5", "0", "K">>) /\ Contains(t, <<"₹", "1", "L">>)
      THEN Ok([type |-> "range", min |-> p50K, max |-> p1L])
      ELSE IF Contains(t, <<"₹", "1", "L">>) /\ Contains(t, <<"₹", "5", "L">>)
      THEN Ok([type |-> "range", min |-> p1L, max |-> p5L])
      ELSE IF Contains(t, <<">">>)
      THEN Ok([type |-> "min", min |-> p5L])
      ELSE Ok(None)

\* lines 135-136: the override, once int(amt) has been evaluated
FixedDesc(k) ==
  IF k.raised THEN k ELSE Ok([type |-> "fixed", amount |-> k.val])

\* a plausible slip: a label that names a bracket wins over the override
budget_to_desc_label_first(state) ==
  IF Truthy(state.budget) /\ ClassifyLabel(StrOf(state.budget)) # Ok(None)
  THEN ClassifyLabel(StrOf(state.budget))
  ELSE IF Truthy(state.budget_amount) THEN FixedDesc(IntOf(state.budget_amount))
  ELSE Ok(None)

budget_to_desc(state) ==
  IF Truthy(state.budget_amount) THEN FixedDesc(IntOf(state.budget_amount))
  ELSE IF ~Truthy(state.budget) THEN Ok(None)
  ELSE ClassifyLabel(StrOf(state.budget))

(***************************************************************************)
(* materialize_budget_amount, lines 150-159.                               *)
(***************************************************************************)
\* a plausible slip: a range materialized as its lower bound
materialize_budget_amount_lower(desc) ==
  IF desc = None THEN None
  ELSE IF desc.type = "fixed" THEN PyInt(desc.amount)
  ELSE IF desc.type = "range" THEN PyInt(desc.min)
  ELSE IF desc.type = "min" THEN PyInt(desc.min)
  ELSE None

\* a plausible slip: an unknown budget materialized as zero
materialize_budget_amount_zero(desc) ==
  IF desc = None THEN PyInt(0)
  ELSE IF desc.type = "fixed" THEN PyInt(desc.amount)
  ELSE IF desc.type = "range" THEN PyInt(RoundHalfEven(desc.min + desc.max, 2))
  ELSE IF desc.type = "min" THEN PyInt(desc.min)
  ELSE None

materialize_budget_amount(desc) ==
  IF desc = None THEN None
  ELSE IF desc.type = "fixed" THEN PyInt(desc.amount)
  ELSE IF desc.type = "range" THEN PyInt(RoundHalfEven(desc.min + desc.max, 2))
  ELSE IF desc.type = "min" THEN PyInt(desc.min)
  ELSE None

(***************************************************************************)
(* The itemized tables, lines 161-216.  A rendered table is the record of  *)
(* its title, its body rows and its footer cell (has_total is FALSE for a  *)
(* table rendered without a <tfoot>).                                      *)
(***************************************************************************)
Dash == <<"-">>

AppLikeMapping(core_label) ==
  << [label |-> <<"UI/UX Design">>, p |-> 15],
     [label |-> core_label, p |-> 30],
     [label |-> <<"Dashboard Development">>, p |-> 30],
     [label |-> <<"Testing">>, p |-> 10],
     [label |-> <<"Deployment">>, p |-> 10],
     [label |-> <<"API & hosting">>, p |-> 5] >>

\* a plausible slip: two rows of the table in the wrong order
WebMapping_swapped ==
  << [label |-> <<"UI/UX Design">>, p |-> 20],
     [label |-> <<"Testing">>, p |-> 10],
     [label |-> <<"Web Development">>, p |-> 50],
     [label |-> <<"Deployment">>, p |-> 10],
     [label |-> <<"API & hosting">>, p |-> 10] >>

WebMapping ==
  << [label |-> <<"UI/UX Design">>, p |-> 20],
     [label |-> <<"Web Development">>, p |-> 50],
     [label |-> <<"Testing">>, p |-> 10],
     [label |-> <<"Deployment">>, p |-> 10],
     [label |-> <<"API & hosting">>, p |-> 10] >>

\* a plausible slip: int() in place of round()
LineAmount_truncated(base, p) == (base * p) \div 100

\* amt = round(base * p / 100)
LineAmount(base, p) == RoundHalfEven(base * p, 100)

\* total_sum after the first k rows of the loop
RECURSIVE TotalSum(_, _, _)
TotalSum(mapping, base, k) ==
  IF k = 0 THEN 0
  ELSE TotalSum(mapping, base, k - 1) + LineAmount(base, mapping[k].p)

\* the loop over mapping and the rendering, shared by both builders
ItemizedTable(title, mapping, budget_desc) ==
  LET base == materialize_budget_amount(budget_desc)
      rows == [i \in 1..Len(mapping) |->
                 [label |-> mapping[i].label,
                  cell |-> IF base = None THEN Dash
                           ELSE inr(PyInt(LineAmount(base.n, mapping[i].p)))]]
      total_cell == IF base = None THEN Dash
                    ELSE inr(PyInt(TotalSum(mapping, base.n, Len(mapping))))
  IN  [title |-> title, rows |-> rows, has_total |-> TRUE, total |-> total_cell]

build_app_like_table(title, core_label, budget_desc) ==
  ItemizedTable(title, AppLikeMapping(core_label), budget_desc)

build_web_table(budget_desc) ==
  ItemizedTable(<<"Web Development">>, WebMapping, budget_desc)

(***************************************************************************)
(* The retainer tables, lines 218-238.                                     *)
(***************************************************************************)
DmPriceMap ==
  << [k |-> <<"0-10">>, v |-> 25000],
     [k |-> <<"10-100">>, v |-> 40000],
     [k |-> <<"100+">>, v |-> 70000] >>

SeoPriceMap ==
  << [k |-> <<"0-10">>, v |-> 10000],
     [k |-> <<"10-100">>, v |-> 15000],
     [k |-> <<"100+">>, v |-> 20000] >>

\* dict.get(key): hashing a list raises, a missing key reads as None
DictGet(price_map, key) ==
  IF key.t = "list" THEN Raise("TypeError")
  ELSE IF key.t = "str" /\ \E i \in 1..Len(price_map) : price_map[i].k = key.s
  THEN Ok(PyInt(price_map[CHOOSE i \in 1..Len(price_map) : price_map[i].k = key.s].v))
  ELSE Ok(None)

PerMonth == <<"/", " ", "m", "o", "n", "t", "h">>

RetainerTable(title, price_map, company_size) ==
  LET amt == DictGet(price_map, company_size)
  IN  IF amt.raised THEN amt
      ELSE Ok([title |-> title,
               rows |-> << [label |-> <<"Monthly Retainer">>,
                            cell |-> inr(amt.val) \o PerMonth] >>,
               has_total |-> FALSE, total |-> <<>>])

build_dm_table(company_size) ==
  RetainerTable(<<"Digital Marketing">>, DmPriceMap, company_size)

build_seo_table(company_size) ==
  RetainerTable(<<"SEO">>, SeoPriceMap, company_size)

(***************************************************************************)
(* build_estimate_table_only, lines 240-263.                               *)
(***************************************************************************)
GenericTable ==
  [title |-> <<"Estimate">>, rows |-> << [label |-> Dash, cell |-> Dash] >>,
   has_total |-> FALSE, total |-> <<>>]

\* the dispatch on category, lines 245-256, once budget_to_desc has returned
EstimateTable(category, employee_size, budget_desc) ==
  IF budget_desc.raised THEN budget_desc
  ELSE IF category = PyStr(<<"AI">>)
  THEN Ok(build_app_like_table(<<"AI Development">>, <<"AI Development">>,
                               budget_desc.val))
  ELSE IF category = PyStr(<<"Software Development">>)
  THEN Ok(build_app_like_table(<<"Software Development">>,
                               <<"Software Development">>, budget_desc.val))
  ELSE IF category = PyStr(<<"App Development">>)
  THEN Ok(build_app_like_table(<<"App Development">>, <<"App Development">>,
                               budget_desc.val))
  ELSE IF category = PyStr(<<"Web Development">>)
  THEN Ok(build_web_table(budget_desc.val))
  ELSE IF category = PyStr(<<"Digital Marketing">>)
  THEN build_dm_table(employee_size)
  ELSE IF category = PyStr(<<"SEO">>)
  THEN build_seo_table(employee_size)
  ELSE Ok(GenericTable)

build_estimate_table_only(data) ==
  EstimateTable(data.category, data.employee_size, budget_to_desc(data))

\* a plausible slip: the override normalized in place, state["budget_amount"]
\* = int(amt), before the table is built
Invoke_build_estimate_table_only_in_place(data, module) ==
  [out |-> build_estimate_table_only(data),
   data |-> IF Truthy(data.budget_amount) /\ ~IntOf(data.budget_amount).raised
            THEN [data EXCEPT !.budget_amount = PyInt(IntOf(data.budget_amount).val)]
            ELSE data,
   module |-> module]

\* one invocation with what it leaves behind: lines 240-263 and the
\* functions they call (lines 103-238) read data through .get() only, assign
\* to locals only and hold no global statement, so the record passed in and
\* the module-level names (lines 290-295) are after the call what they were
\* before it
Invoke_build_estimate_table_only(data, module) ==
  [out |-> build_estimate_table_only(data), data |-> data, module |-> module]

(***************************************************************************)
(* save_doc_resilient, lines 431-465, with data_api_insert_one, lines      *)
(* 406-429.  env holds the module state connect_mongo left (MONGO_READY;   *)
(* the database and both collection objects are set whenever it is True),  *)
(* the configuration, and what the outside world answers to this call.    *)
(* effects lists the inserts and sends attempted, in order.                *)
(***************************************************************************)
MONGO_COLLECTION == <<"leads">>

MONGO_APPLICATIONS_COLLECTION == <<"applications">>

Effect(kind, to, ok) == [kind |-> kind, to |-> to, ok |-> ok]

data_api_insert_one(collection, env) ==
  IF ~env.DATA_API_ENABLED
  THEN [ok |-> FALSE, id |-> "None", err |-> "Data API not configured", effects |-> <<>>]
  ELSE IF env.data_api = "2xx"
  THEN [ok |-> TRUE, id |-> "insertedId", err |-> "",
        effects |-> <<Effect("data_api", 0, TRUE)>>]
  ELSE IF env.data_api = "2xx_no_id"
  THEN [ok |-> TRUE, id |-> "None", err |-> "",
        effects |-> <<Effect("data_api", 0, TRUE)>>]
  ELSE IF env.data_api = "status"
  THEN [ok |-> FALSE, id |-> "None", err |-> "status: text",
        effects |-> <<Effect("data_api", 0, FALSE)>>]
  ELSE [ok |-> FALSE, id |-> "None", err |-> "exception",
        effects |-> <<Effect("data_api", 0, FALSE)>>]

\* a plausible slip: the Data API insert made even after the driver insert
\* succeeded
save_doc_resilient_both(collection, env) ==
  LET target_col ==
        IF collection = MONGO_APPLICATIONS_COLLECTION THEN "mongo_applications_col"
        ELSE IF collection = MONGO_COLLECTION THEN "mongo_col"
        ELSE "None"
      can_try_driver == env.MONGO_READY /\ target_col # "None"
      driver_ok == can_try_driver /\ env.driver = "ok"
      driver_effects ==
        IF can_try_driver THEN <<Effect("mongo", 0, driver_ok)>> ELSE <<>>
      api == data_api_insert_one(collection, env)
  IN  IF driver_ok
      THEN [ok |-> TRUE, backend |-> "mongo", id |-> "inserted_id", error |-> "",
            effects |-> driver_effects \o api.effects]
      ELSE IF api.ok
      THEN [ok |-> TRUE, backend |-> "data_api", id |-> api.id, error |-> "",
            effects |-> driver_effects \o api.effects]
      ELSE [ok |-> FALSE, backend |-> "none", id |-> "None", error |-> api.err,
            effects |-> driver_effects \o api.effects]

save_doc_resilient(collection, env) ==
  LET target_col ==
        IF collection = MONGO_APPLICATIONS_COLLECTION THEN "mongo_applications_col"
        ELSE IF collection = MONGO_COLLECTION THEN "mongo_col"
        ELSE "None"
      can_try_driver == env.MONGO_READY /\ target_col # "None"
      driver_ok == can_try_driver /\ env.driver = "ok"
      driver_error == IF can_try_driver /\ ~driver_ok THEN "driver exception" ELSE ""
      driver_effects ==
        IF can_try_driver THEN <<Effect("mongo", 0, driver_ok)>> ELSE <<>>
      api == data_api_insert_one(collection, env)
  IN  IF driver_ok
      THEN [ok |-> TRUE, backend |-> "mongo", id |-> "inserted_id", error |-> "",
            effects |-> driver_effects]
      ELSE IF api.ok
      THEN [ok |-> TRUE, backend |-> "data_api", id |-> api.id, error |-> "",
            effects |-> driver_effects \o api.effects]
      ELSE [ok |-> FALSE, backend |-> "none", id |-> "None",
            error |-> IF api.err # "" THEN api.err
                      ELSE IF env.MONGO_LAST_ERROR # "" THEN env.MONGO_LAST_ERROR
                      ELSE driver_error,
            effects |-> driver_effects \o api.effects]

(***************************************************************************)
(* send_sales_email, lines 549-576.  env.SALES_EMAILS is the number of     *)
(* recipients; env.api_ok[i] and env.smtp_ok[i] are what                   *)
(* send_via_sendgrid_api and send_via_smtp return for recipient i.         *)
(***************************************************************************)
\* one "for to in recipients" loop, after its first k recipients
RECURSIVE SendLoop(_, _, _, _, _)
SendLoop(kind, oks, err, start, k) ==
  IF k = 0 THEN start
  ELSE LET before == SendLoop(kind, oks, err, start, k - 1)
       IN  [successes |-> before.successes + (IF oks[k] THEN 1 ELSE 0),
            last_err |-> IF oks[k] THEN before.last_err ELSE err,
            effects |-> Append(before.effects, Effect(kind, k, oks[k]))]

\* a plausible slip: the SMTP loop run whether or not an API send succeeded
send_sales_email_always_smtp(env) ==
  LET recipients == env.SALES_EMAILS
      try_api == env.SENDGRID_TRANSPORT \in {"auto", "api"}
      try_smtp == env.SENDGRID_TRANSPORT \in {"auto", "smtp"}
      start == [successes |-> 0, last_err |-> "", effects |-> <<>>]
      after_api ==
        IF try_api THEN SendLoop("api", env.api_ok, "API error", start, recipients)
        ELSE start
      after_smtp ==
        IF try_smtp
        THEN SendLoop("smtp", env.smtp_ok, "SMTP error", after_api, recipients)
        ELSE after_api
  IN  IF recipients = 0
      THEN [ok |-> FALSE, err |-> "No recipients configured", effects |-> <<>>]
      ELSE [ok |-> after_smtp.successes > 0, err |-> after_smtp.last_err,
            effects |-> after_smtp.effects]

send_sales_email(env) ==
  LET recipients == env.SALES_EMAILS
      try_api == env.SENDGRID_TRANSPORT \in {"auto", "api"}
      try_smtp == env.SENDGRID_TRANSPORT \in {"auto", "smtp"}
      start == [successes |-> 0, last_err |-> "", effects |-> <<>>]
      after_api ==
        IF try_api THEN SendLoop("api", env.api_ok, "API error", start, recipients)
        ELSE start
      after_smtp ==
        IF after_api.successes = 0 /\ try_smtp
        THEN SendLoop("smtp", env.smtp_ok, "SMTP error", after_api, recipients)
        ELSE after_api
  IN  IF recipients = 0
      THEN [ok |-> FALSE, err |-> "No recipients configured", effects |-> <<>>]
      ELSE [ok |-> after_smtp.successes > 0, err |-> after_smtp.last_err,
            effects |-> after_smtp.effects]

(***************************************************************************)
(* The routes.  A request body is "none" (no JSON), "empty" ({}), "array"  *)
(* (JSON that is no object) or "object", and then data is what it holds.   *)
(***************************************************************************)
MinTermNote == <<"Minimum engagement for this service is 6 months.">>

GeneralNote ==
  <<"Note: The above pricing is indicative and may vary after we start working and refine the scope in detail.">>

ContactHtml == <<"Contact: CONTACT_EMAIL | CONTACT_PHONE">>

NoSummary == [built |-> FALSE]

\* what the language model answers when it does not echo the summary
LlmText == [built |-> TRUE, llm |-> TRUE]

EmptyRequest ==
  [category |-> None, employee_size |-> None, budget |-> None, budget_amount |-> None]

\* /summarize, lines 661-701: lines 668-679 build summary_html
summarize_notes(category, estimate_table_html) ==
  LET min_term_note ==
        IF category \in {PyStr(<<"Digital Marketing">>), PyStr(<<"SEO">>)}
        THEN MinTermNote ELSE <<>>
      general_note ==
        IF category \in {PyStr(<<"Digital Marketing">>), PyStr(<<"SEO">>)}
        THEN <<>> ELSE GeneralNote
  IN  IF estimate_table_html.raised THEN estimate_table_html
      ELSE Ok([built |-> TRUE,
               estimate_table_html |-> estimate_table_html.val,
               min_term_note |-> min_term_note,
               general_note |-> general_note,
               contact_html |-> ContactHtml])

summarize_summary_html(data) ==
  summarize_notes(data.category, build_estimate_table_only(data))

\* lines 681-698: the optional pass through the language model, the response
summarize_response(groq, summary_html) ==
  IF summary_html.raised
  THEN [status |-> 500, ok |-> FALSE, summary_html |-> NoSummary, summary |-> NoSummary]
  ELSE [status |-> 200, ok |-> TRUE, summary_html |-> summary_html.val,
        summary |-> IF groq = "other" THEN LlmText ELSE summary_html.val]

summarize(req) ==
  IF req.body \in {"none", "empty"}
  THEN [status |-> 400, ok |-> FALSE, summary_html |-> NoSummary, summary |-> NoSummary]
  ELSE IF req.body = "array"
  THEN [status |-> 500, ok |-> FALSE, summary_html |-> NoSummary, summary |-> NoSummary]
  ELSE summarize_response(req.groq, summarize_summary_html(req.data))

\* /save_user_data, lines 703-753: lines 713-724 build summary_html
\* a plausible slip: the indicative-pricing note added whatever the category
save_user_data_notes_both(category, estimate_table_html) ==
  IF estimate_table_html.raised THEN estimate_table_html
  ELSE Ok([built |-> TRUE,
           estimate_table_html |-> estimate_table_html.val,
           min_term_note |->
             IF category \in {PyStr(<<"Digital Marketing">>), PyStr(<<"SEO">>)}
             THEN MinTermNote ELSE <<>>,
           general_note |-> GeneralNote,
           contact_html |-> ContactHtml])

save_user_data_notes(category, estimate_table_html) ==
  LET min_term_note ==
        IF category \in {PyStr(<<"Digital Marketing">>), PyStr(<<"SEO">>)}
        THEN MinTermNote ELSE <<>>
      general_note ==
        IF category \in {PyStr(<<"Digital Marketing">>), PyStr(<<"SEO">>)}
        THEN <<>> ELSE GeneralNote
  IN  IF estimate_table_html.raised THEN estimate_table_html
      ELSE Ok([built |-> TRUE,
               estimate_table_html |-> estimate_table_html.val,
               min_term_note |-> min_term_note,
               general_note |-> general_note,
               contact_html |-> ContactHtml])

save_user_data_summary_html(data) ==
  save_user_data_notes(data.category, build_estimate_table_only(data))

ErrorResponse(effects) ==
  [status |-> 500, ok |-> FALSE, summary_html |-> NoSummary, db_saved |-> FALSE,
   db_backend |-> "", db_id |-> "None", mongo_id |-> "None", mongo_saved |-> FALSE,
   email_sent |-> FALSE, email_error |-> "", effects |-> effects]

\* lines 737-750: the response, or the except branch when the summary raised
save_user_data_response(store, summary_html, email) ==
  IF summary_html.raised THEN ErrorResponse(store.effects)
  ELSE [status |-> 200, ok |-> TRUE, summary_html |-> summary_html.val,
        db_saved |-> store.ok, db_backend |-> store.backend,
        db_id |-> store.id,
        mongo_id |-> IF store.backend = "mongo" THEN store.id ELSE "None",
        mongo_saved |-> store.backend = "mongo" /\ store.ok,
        email_sent |-> email.ok, email_error |-> email.err,
        effects |-> store.effects \o email.effects]

save_user_data(req) ==
  IF req.body = "array" THEN ErrorResponse(<<>>)
  ELSE save_user_data_response(
         save_doc_resilient(MONGO_COLLECTION, req.env),
         save_user_data_summary_html(IF req.body = "object" THEN req.data
                                     ELSE EmptyRequest),
         send_sales_email(req.env))

(***************************************************************************)
(* /upload_cv, lines 585-659, with allowed_file, lines 100-101, and the    *)
(* upload configuration, lines 90-95.  A request carries the uploaded file *)
(* (or none), its name and its length in bytes, the bytes of multipart     *)
(* framing around it, the state_json form field, and what the disk and the *)
(* outside world answer.                                                   *)
(***************************************************************************)
MAX_FILE_SIZE == 5 * 1024 * 1024

\* app.config["MAX_CONTENT_LENGTH"] = MAX_FILE_SIZE, line 95
MAX_CONTENT_LENGTH == MAX_FILE_SIZE

ALLOWED_EXTENSIONS == {<<"p", "d", "f">>}

LowerChar(ch) ==
  CASE ch = "P" -> "p"
    [] ch = "D" -> "d"
    [] ch = "F" -> "f"
    [] ch = "T" -> "t"
    [] ch = "X" -> "x"
    [] OTHER -> ch

\* str.lower()
Lower(q) == [i \in 1..Len(q) |-> LowerChar(q[i])]

\* filename.rsplit(".", 1)[1]: what follows the last point
AfterLastDot(filename) ==
  LET last == CHOOSE i \in 1..Len(filename) :
                /\ filename[i] = "."
                /\ \A j \in (i + 1)..Len(filename) : filename[j] # "."
  IN  SubSeq(filename, last + 1, Len(filename))

allowed_file(filename) ==
  /\ Contains(filename, <<".">>)
  /\ Lower(AfterLastDot(filename)) \in ALLOWED_EXTENSIONS

\* request.files.get("file"), line 588: with MAX_CONTENT_LENGTH configured
\* the framework refuses to read a body longer than the limit and raises
\* RequestEntityTooLarge from the first access to request.files; the call
\* stands inside the try of line 587, so the except of lines 657-659 gets
\* the exception and the 413 handler of lines 774-776 does not.
\* limit_enforced is FALSE for a body
\* whose length the framework does not get to bound (a streamed body on a
\* build that reads it unchecked).
FilesAccessRaises(req) ==
  /\ req.limit_enforced
  /\ (IF req.file = "present" THEN req.size ELSE 0) + req.framing > MAX_CONTENT_LENGTH

UploadError(status, effects) ==
  [status |-> status, ok |-> FALSE, db_saved |-> FALSE, db_backend |-> "",
   email_sent |-> FALSE, effects |-> effects]

\* lines 618-645: the email, then the record, then the response
upload_cv_response(written, email, store) ==
  [status |-> 200, ok |-> TRUE, db_saved |-> store.ok, db_backend |-> store.backend,
   email_sent |-> email.ok, effects |-> written \o email.effects \o store.effects]

\* state_json is "absent", "object", "invalid" (no JSON: user_data stays {})
\* or "not_object" (JSON that is no object: the assignment of line 614 raises)
upload_cv(req) ==
  IF FilesAccessRaises(req) THEN UploadError(500, <<>>)
  ELSE IF req.file = "absent" \/ req.filename = <<>> THEN UploadError(400, <<>>)
  ELSE IF ~allowed_file(req.filename) THEN UploadError(400, <<>>)
  ELSE IF req.size > MAX_FILE_SIZE THEN UploadError(413, <<>>)
  ELSE IF req.disk = "raises" THEN UploadError(500, <<Effect("file", 0, FALSE)>>)
  ELSE IF req.state_json = "not_object"
  THEN UploadError(500, <<Effect("file", 0, TRUE)>>)
  ELSE upload_cv_response(<<Effect("file", 0, TRUE)>>, send_sales_email(req.env),
                          save_doc_resilient(MONGO_APPLICATIONS_COLLECTION, req.env))

(***************************************************************************)
(* The inputs the calls are made with.                                     *)
(***************************************************************************)
\* every text of at most n characters of alphabet
TextsUpTo(alphabet, n) == UNION {[1..k -> alphabet] : k \in 0..n}

ParseAlphabet == {"1", "5", ".", "K", "k", "L", "₹", ",", " ", "\t", "-"}

ParseExamples ==
  { <<"₹", "5", "0", ",", "0", "0", "0">>,
    <<"1", ".", "5", "L">>,
    <<"2", "C", "r">>,
    <<"1", ".", "2", ".", "3">>,
    <<"3", "l", "a", "k", "h">>,
    <<"3", " ", "L", "a", "k", "h", "s">>,
    <<"2", "L", "A", "C">>,
    <<"1", "c", "r", "o", "r", "e">>,
    <<"7", "x">>,
    <<"0", ".", "0", "0", "0", "5", "K">>,
    <<"5", "C", "R", "S">>,
    <<"5", "L", "A", "K", "H", "X">>,
    <<"4", "c", "r">>,
    <<"1", " ", "l", "a", "c">>,
    <<"₹", " ", "2", ",", "0", "0", "0", " ", "K">> }

ParseInputs ==
  {None, PyInt(50000)}
    \cup {PyStr(q) : q \in TextsUpTo(ParseAlphabet, MaxLen) \cup ParseExamples}

LabelFragments ==
  { <<"0", " ", "<">>,
    <<"₹", "5", "0", "K">>,
    <<"₹", "1", "L">>,
    <<"₹", "5", "L">>,
    <<">">>,
    <<" ", "-", " ">>,
    <<"0">>,
    <<"<">>,
    <<"5", "L">>,
    <<"x">> }

\* every concatenation of at most k fragments
RECURSIVE LabelsOf(_)
LabelsOf(k) ==
  IF k = 0 THEN {<<>>}
  ELSE LET shorter == LabelsOf(k - 1)
       IN  shorter \cup {a \o f : a \in shorter, f \in LabelFragments}

\* the four brackets as the front end words them
BracketLabels ==
  { <<"0", " ", "<", " ", "₹", "5", "0", "K">>,
    <<"₹", "5", "0", "K", " ", "-", " ", "₹", "1", "L">>,
    <<"₹", "1", "L", " ", "-", " ", "₹", "5", "L">>,
    <<">", " ", "₹", "5", "L">> }

Amounts ==
  { None, PyInt(0), PyInt(5), PyInt(15), PyInt(-5), PyInt(100000),
    PyStr(<<>>), PyStr(<<"a", "b", "c">>), PyStr(<<"0">>), PyStr(<<"7">>), PyList }

Categories ==
  { None, PyStr(<<"AI">>), PyStr(<<"Software Development">>),
    PyStr(<<"App Development">>), PyStr(<<"Web Development">>),
    PyStr(<<"Digital Marketing">>), PyStr(<<"SEO">>), PyStr(<<"Blockchain">>),
    PyStr(<<>>), PyList }

EmployeeSizes ==
  { None, PyStr(<<"0-10">>), PyStr(<<"10-100">>), PyStr(<<"100+">>),
    PyStr(<<"50">>), PyStr(<<>>), PyInt(10), PyList }

Budgets ==
  {None, PyInt(5), PyStr(<<"x">>)} \cup {PyStr(q) : q \in BracketLabels \cup {<<>>}}

\* requests given to budget_to_desc alone: every label, every override
DescRequests ==
  [category : {None}, employee_size : {None},
   budget : {None, PyInt(0), PyInt(5)} \cup {PyStr(q) : q \in LabelsOf(MaxFrags)},
   budget_amount : Amounts]

\* requests given to build_estimate_table_only and to the routes
Requests ==
  [category : Categories, employee_size : EmployeeSizes, budget : Budgets,
   budget_amount : Amounts]

\* descriptors given to the materializer and to the table builders
Descs ==
  {None}
    \cup {[type |-> "fixed", amount |-> a] :
            a \in (0..MaxBase) \cup {100 * k : k \in 0..MaxHundreds}
                   \cup {-5, 99999, 100000}}
    \cup {[type |-> "range", min |-> 0, max |-> 50000],
          [type |-> "range", min |-> 50000, max |-> 100000],
          [type |-> "range", min |-> 100000, max |-> 500000],
          [type |-> "range", min |-> 0, max |-> 5]}
    \cup {[type |-> "range", min |-> a, max |-> b] :
            a \in 0..MaxRange, b \in 0..MaxRange}
    \cup {[type |-> "min", min |-> 500000], [type |-> "min", min |-> 0],
          [type |-> "other"]}

AppLikeTitles == {<<"AI Development">>, <<"Software Development">>, <<"App Development">>}

\* requests given to /save_user_data with every environment
RouteRequests ==
  [category : {None, PyStr(<<"AI">>), PyStr(<<"Web Development">>),
               PyStr(<<"Digital Marketing">>), PyStr(<<"SEO">>), PyStr(<<"Blockchain">>)},
   employee_size : {PyStr(<<"10-100">>)},
   budget : {None}, budget_amount : {None, PyInt(100000), PyStr(<<"a", "b", "c">>)}]

\* the environment in which everything is configured and answers
GoodEnv ==
  [MONGO_READY |-> TRUE, MONGO_LAST_ERROR |-> "", driver |-> "ok",
   DATA_API_ENABLED |-> TRUE, data_api |-> "2xx", SENDGRID_TRANSPORT |-> "auto",
   SALES_EMAILS |-> 1, api_ok |-> <<TRUE>>, smtp_ok |-> <<TRUE>>]

Envs ==
  UNION {
    [MONGO_READY : BOOLEAN, MONGO_LAST_ERROR : {""}, driver : {"ok", "raises"},
     DATA_API_ENABLED : BOOLEAN, data_api : {"2xx", "2xx_no_id", "status", "raises"},
     SENDGRID_TRANSPORT : {"auto", "api", "smtp", "off"},
     SALES_EMAILS : {k}, api_ok : [1..k -> BOOLEAN], smtp_ok : [1..k -> BOOLEAN]]
    : k \in 0..MaxRecipients }

\* the module-level state connect_mongo leaves, lines 290-295
ModuleStates ==
  { [MONGO_READY |-> TRUE, MONGO_LAST_ERROR |-> ""],
    [MONGO_READY |-> FALSE, MONGO_LAST_ERROR |-> "MONGODB_URI is empty. Set it in your .env"] }

\* requests given to the sessions of several invocations
SessionRequests ==
  { [category |-> PyStr(<<"AI">>), employee_size |-> None, budget |-> None,
     budget_amount |-> None],
    [category |-> PyStr(<<"AI">>), employee_size |-> None, budget |-> None,
     budget_amount |-> PyInt(100000)],
    [category |-> PyStr(<<"AI">>), employee_size |-> None, budget |-> None,
     budget_amount |-> PyStr(<<"7">>)],
    [category |-> PyStr(<<"AI">>), employee_size |-> None, budget |-> None,
     budget_amount |-> PyStr(<<"a", "b", "c">>)],
    [category |-> PyStr(<<"Web Development">>), employee_size |-> PyStr(<<"0-10">>),
     budget |-> PyStr(<<"₹", "5", "0", "K", " ", "-", " ", "₹", "1", "L">>),
     budget_amount |-> None],
    [category |-> PyStr(<<"Web Development">>), employee_size |-> PyStr(<<"0-10">>),
     budget |-> None, budget_amount |-> PyInt(15)],
    [category |-> PyStr(<<"Digital Marketing">>), employee_size |-> PyStr(<<"10-100">>),
     budget |-> None, budget_amount |-> None],
    [category |-> PyStr(<<"SEO">>), employee_size |-> None, budget |-> None,
     budget_amount |-> PyInt(15)],
    [category |-> PyStr(<<"Blockchain">>), employee_size |-> None, budget |-> None,
     budget_amount |-> None] }

\* the environments that differ in what the two stores do
StoreEnvs ==
  {e \in Envs : e.SALES_EMAILS = 0 /\ e.SENDGRID_TRANSPORT = "auto"}

\* calls of save_doc_resilient: the two configured collections and another
StoreCalls ==
  [collection : {MONGO_COLLECTION, MONGO_APPLICATIONS_COLLECTION, <<"archive">>},
   env : StoreEnvs]

\* the environments that differ in the transport, the recipients and what
\* the two transports answer
MailEnvs ==
  {e \in Envs : /\ e.MONGO_READY /\ e.driver = "ok"
                /\ e.DATA_API_ENABLED /\ e.data_api = "2xx"}

Filenames ==
  { <<>>,
    <<"c", "v", ".", "p", "d", "f">>,
    <<"c", "v", ".", "P", "D", "F">>,
    <<"c", "v", ".", "t", "x", "t">>,
    <<"c", "v">>,
    <<"p", "d", "f">>,
    <<".", "p", "d", "f">>,
    <<"c", "v", ".", "p", "d", "f", ".">>,
    <<"c", "v", ".", "p", "d", "f", ".", "t", "x", "t">>,
    <<"c", ".", "v", ".", "p", "d", "f">> }

FileSizes ==
  {0, 1, MAX_FILE_SIZE - 1000, MAX_FILE_SIZE - 1, MAX_FILE_SIZE, MAX_FILE_SIZE + 1,
   2 * MAX_FILE_SIZE}

\* every shape of upload where all is configured and answers, and one
\* well-formed upload under every environment
UploadRequests ==
  [file : {"absent", "present"}, filename : Filenames, size : FileSizes,
   framing : {200}, limit_enforced : BOOLEAN,
   state_json : {"absent", "object", "invalid", "not_object"},
   disk : {"ok", "raises"}, env : {GoodEnv}]
    \cup [file : {"present"}, filename : {<<"c", "v", ".", "p", "d", "f">>},
          size : {1}, framing : {200}, limit_enforced : BOOLEAN,
          state_json : {"object"}, disk : {"ok"}, env : Envs]

SummarizeRequests ==
  [body : {"none", "empty", "array"}, data : {EmptyRequest}, groq : {"off"}]
    \cup [body : {"object"}, data : Requests, groq : {"off", "echo", "other", "fails"}]

SaveRequests ==
  [body : {"none", "empty", "array"}, data : {EmptyRequest}, env : Envs]
    \cup [body : {"object"}, data : RouteRequests, env : Envs]
    \cup [body : {"object"}, data : Requests, env : {GoodEnv}]

\* a session: MaxCalls invocations of build_estimate_table_only in one
\* process; ret is the log of the invocations made so far and the
\* module-level state they left
InitSession ==
  /\ pc = "called"
  /\ fn = "estimate_session"
  /\ arg \in [calls : [1..MaxCalls -> SessionRequests], module : ModuleStates]
  /\ ret = [log |-> <<>>, module |-> arg.module]

InitCall ==
  /\ pc = "called"
  /\ ret = Ok(None)
  /\ \/ fn = "parse_inr_string" /\ arg \in ParseInputs
     \/ fn = "inr" /\ arg \in Amounts
     \/ fn = "budget_to_desc" /\ arg \in DescRequests
     \/ fn = "materialize_budget_amount" /\ arg \in Descs
     \/ fn = "build_app_like_table"
          /\ arg \in [title : AppLikeTitles, budget_desc : Descs]
     \/ fn = "build_web_table" /\ arg \in Descs
     \/ fn = "build_dm_table" /\ arg \in EmployeeSizes
     \/ fn = "build_seo_table" /\ arg \in EmployeeSizes
     \/ fn = "build_estimate_table_only" /\ arg \in Requests
     \/ fn = "summarize" /\ arg \in SummarizeRequests
     \/ fn = "save_user_data" /\ arg \in SaveRequests
     \/ fn = "save_doc_resilient" /\ arg \in StoreCalls
     \/ fn = "send_sales_email" /\ arg \in MailEnvs
     \/ fn = "upload_cv" /\ arg \in UploadRequests

Init == InitCall \/ InitSession

Call_parse_inr_string ==
  /\ pc = "called" /\ fn = "parse_inr_string"
  /\ ret' = parse_inr_string(arg)
  /\ pc' = "returned"
  /\ UNCHANGED <<fn, arg>>

Call_inr ==
  /\ pc = "called" /\ fn = "inr"
  /\ ret' = Ok(inr(arg))
  /\ pc' = "returned"
  /\ UNCHANGED <<fn, arg>>

Call_budget_to_desc ==
  /\ pc = "called" /\ fn = "budget_to_desc"
  /\ ret' = budget_to_desc(arg)
  /\ pc' = "returned"
  /\ UNCHANGED <<fn, arg>>

Call_materialize_budget_amount ==
  /\ pc = "called" /\ fn = "materialize_budget_amount"
  /\ ret' = Ok(materialize_budget_amount(arg))
  /\ pc' = "returned"
  /\ UNCHANGED <<fn, arg>>

Call_build_app_like_table ==
  /\ pc = "called" /\ fn = "build_app_like_table"
  /\ ret' = Ok(build_app_like_table(arg.title, arg.title, arg.budget_desc))
  /\ pc' = "returned"
  /\ UNCHANGED <<fn, arg>>

Call_build_web_table ==
  /\ pc = "called" /\ fn = "build_web_table"
  /\ ret' = Ok(build_web_table(arg))
  /\ pc' = "returned"
  /\ UNCHANGED <<fn, arg>>

Call_build_dm_table ==
  /\ pc = "called" /\ fn = "build_dm_table"
  /\ ret' = build_dm_table(arg)
  /\ pc' = "returned"
  /\ UNCHANGED <<fn, arg>>

Call_build_seo_table ==
  /\ pc = "called" /\ fn = "build_seo_table"
  /\ ret' = build_seo_table(arg)
  /\ pc' = "returned"
  /\ UNCHANGED <<fn, arg>>

Call_build_estimate_table_only ==
  /\ pc = "called" /\ fn = "build_estimate_table_only"
  /\ ret' = build_estimate_table_only(arg)
  /\ pc' = "returned"
  /\ UNCHANGED <<fn, arg>>

Route_summarize ==
  /\ pc = "called" /\ fn = "summarize"
  /\ ret' = summarize(arg)
  /\ pc' = "returned"
  /\ UNCHANGED <<fn, arg>>

Route_save_user_data ==
  /\ pc = "called" /\ fn = "save_user_data"
  /\ ret' = save_user_data(arg)
  /\ pc' = "returned"
  /\ UNCHANGED <<fn, arg>>

Call_save_doc_resilient ==
  /\ pc = "called" /\ fn = "save_doc_resilient"
  /\ ret' = save_doc_resilient(arg.collection, arg.env)
  /\ pc' = "returned"
  /\ UNCHANGED <<fn, arg>>

Call_send_sales_email ==
  /\ pc = "called" /\ fn = "send_sales_email"
  /\ ret' = send_sales_email(arg)
  /\ pc' = "returned"
  /\ UNCHANGED <<fn, arg>>

Route_upload_cv ==
  /\ pc = "called" /\ fn = "upload_cv"
  /\ ret' = upload_cv(arg)
  /\ pc' = "returned"
  /\ UNCHANGED <<fn, arg>>

\* the next invocation of a session
Step_estimate_session ==
  /\ pc \in {"called", "running"} /\ fn = "estimate_session"
  /\ LET k == Len(ret.log) + 1
         inv == Invoke_build_estimate_table_only(arg.calls[k], ret.module)
     IN  /\ ret' = [log |-> Append(ret.log, [given |-> arg.calls[k], out |-> inv.out,
                                             after |-> inv.data]),
                    module |-> inv.module]
         /\ pc' = IF k = Len(arg.calls) THEN "returned" ELSE "running"
  /\ UNCHANGED <<fn, arg>>

Next ==
  \/ Step_estimate_session
  \/ Call_parse_inr_string
  \/ Call_inr
  \/ Call_budget_to_desc
  \/ Call_materialize_budget_amount
  \/ Call_build_app_like_table
  \/ Call_build_web_table
  \/ Call_build_dm_table
  \/ Call_build_seo_table
  \/ Call_build_estimate_table_only
  \/ Route_summarize
  \/ Route_save_user_data
  \/ Call_save_doc_resilient
  \/ Call_send_sales_email
  \/ Route_upload_cv

Spec == Init /\ [][Next]_vars

(***************************************************************************)
(* Helpers of the properties.                                              *)
(***************************************************************************)
Returned(f) == pc = "returned" /\ fn = f

Itemized ==
  { PyStr(<<"AI">>), PyStr(<<"Software Development">>), PyStr(<<"App Development">>),
    PyStr(<<"Web Development">>) }

Retainer == {PyStr(<<"Digital Marketing">>), PyStr(<<"SEO">>)}

Buckets == {PyStr(<<"0-10">>), PyStr(<<"10-100">>), PyStr(<<"100+">>)}

HasDigit(text) == \E i \in 1..Len(text) : IsDigit(text[i])

\* every body cell and the footer cell, if there is one, is the placeholder
AllPlaceholders(table) ==
  /\ \A i \in 1..Len(table.rows) : table.rows[i].cell = Dash
  /\ table.has_total => table.total = Dash

NoAmountShown(table) ==
  /\ \A i \in 1..Len(table.rows) : ~HasDigit(table.rows[i].cell)
  /\ ~HasDigit(table.total)

\* the number a cell displays, read back from its text
CellAmount(cell) == DigitsValue(Remove(Remove(cell, "₹"), ","))

RECURSIVE SumOfCells(_, _)
SumOfCells(rows, k) ==
  IF k = 0 THEN 0 ELSE SumOfCells(rows, k - 1) + CellAmount(rows[k].cell)

\* the displayed total is the sum of the displayed lines and is within
\* drift of base
TotalWithin(table, base, drift) ==
  /\ table.total = inr(PyInt(SumOfCells(table.rows, Len(table.rows))))
  /\ \E d \in (-drift)..drift : table.total = inr(PyInt(base + d))

IsItemizedCall ==
  \/ Returned("build_app_like_table") /\ arg.budget_desc # None
       /\ arg.budget_desc.type = "fixed" /\ arg.budget_desc.amount >= 0
  \/ Returned("build_web_table") /\ arg # None
       /\ arg.type = "fixed" /\ arg.amount >= 0

ItemizedBase == IF fn = "build_web_table" THEN arg.amount ELSE arg.budget_desc.amount

(***************************************************************************)
(* C1.  Claimed: budget_to_desc returns Fixed(budget_amount) for every     *)
(* record whose budget_amount is non-null, budget_amount = 0 included,     *)
(* whatever the label.                                                     *)
(***************************************************************************)
\* C1 as claimed: every integer override, zero included, gives the fixed
\* descriptor of that amount
C1_FixedForEveryNonNullAmount ==
  (Returned("budget_to_desc") /\ arg.budget_amount.t = "int")
    => ret = Ok([type |-> "fixed", amount |-> arg.budget_amount.n])

\* C1 as amended: every non-zero integer override gives the fixed descriptor
\* of that amount whatever the label holds; an override of 0 counts as
\* absent, and the label alone decides the result
C1_FixedForNonZeroAmount ==
  (Returned("budget_to_desc") /\ arg.budget_amount.t = "int")
    => IF arg.budget_amount.n # 0
       THEN ret = Ok([type |-> "fixed", amount |-> arg.budget_amount.n])
       ELSE /\ ~ret.raised
            /\ ret.val # None => ret.val.type # "fixed"
            /\ ret.val # None <=>
                 /\ arg.budget.t = "str"
                 /\ \/ Contains(arg.budget.s, <<"0", " ", "<">>)
                    \/ Contains(arg.budget.s, <<">">>)
                    \/ /\ Contains(arg.budget.s, <<"₹", "1", "L">>)
                       /\ \/ Contains(arg.budget.s, <<"₹", "5", "0", "K">>)
                          \/ Contains(arg.budget.s, <<"₹", "5", "L">>)

\* a non-zero override wins over a label that names a bracket
C1_Witness ==
  /\ Returned("budget_to_desc")
  /\ arg.budget_amount = PyInt(5)
  /\ arg.budget = PyStr(<<"0", " ", "<", "₹", "5", "0", "K">>)
  /\ ret = Ok([type |-> "fixed", amount |-> 5])

(***************************************************************************)
(* C2.  Claimed: with budget and budget_amount both absent, every cost row *)
(* and the total are placeholders for every recognized category.           *)
(***************************************************************************)
BothAbsent == arg.budget = None /\ arg.budget_amount = None

\* C2 as claimed, for the employee_size values that are buckets: for each of
\* the six recognized categories, no budget means placeholders only and no
\* amount shown
C2_PlaceholdersForEveryRecognizedCategory ==
  (Returned("build_estimate_table_only") /\ BothAbsent
     /\ arg.category \in Itemized \cup Retainer /\ arg.employee_size \in Buckets)
    => /\ ~ret.raised
       /\ AllPlaceholders(ret.val)
       /\ NoAmountShown(ret.val)

\* C2 as amended: for each of the four itemized categories and every
\* employee_size, no budget means every cost row and the total are the
\* placeholder and no amount is shown
C2_PlaceholdersForItemizedCategories ==
  (Returned("build_estimate_table_only") /\ BothAbsent /\ arg.category \in Itemized)
    => /\ ~ret.raised
       /\ ret.val.has_total
       /\ Len(ret.val.rows) >= 5
       /\ AllPlaceholders(ret.val)
       /\ NoAmountShown(ret.val)

C2_Witness ==
  /\ Returned("build_estimate_table_only")
  /\ BothAbsent
  /\ arg.category = PyStr(<<"Web Development">>)
  /\ arg.employee_size = PyStr(<<"10-100">>)
  /\ ~ret.raised
  /\ ret.val.total = Dash

(***************************************************************************)
(* C3.  Claimed: build_estimate_table_only never raises.                   *)
(***************************************************************************)
\* C3: for every request, malformed fields included, the call returns a
\* rendered table
C3_EstimateNeverRaises ==
  Returned("build_estimate_table_only") => ~ret.raised

(***************************************************************************)
(* C4.  Claimed: the displayed total of an itemized table differs from the *)
(* base by at most 1.                                                      *)
(***************************************************************************)
\* C4 as claimed: for both itemized tables and every base >= 0 the displayed
\* total is the sum of the displayed lines and is within 1 of the base
C4_TotalWithinOneOfBase ==
  IsItemizedCall => TotalWithin(ret.val, ItemizedBase, 1)

\* C4 as amended: for a base >= 0 (and below 10^15, where the division is
\* still exact enough) the displayed total is the sum of the displayed
\* lines; it is within 1 of the base for the 15/30/30/10/10/5 table and
\* within 2 of the base for the Web Development table
C4_TotalWithinDriftOfBase ==
  IsItemizedCall =>
    TotalWithin(ret.val, ItemizedBase, IF fn = "build_web_table" THEN 2 ELSE 1)

\* base 15 in the Web Development table: 3 + 8 + 2 + 2 + 2 = 17
C4_Witness ==
  /\ Returned("build_web_table")
  /\ arg = [type |-> "fixed", amount |-> 15]
  /\ ret.val.total = <<"₹", "1", "7">>

(***************************************************************************)
(* C5.  Claimed: parse_inr_string never raises.                            *)
(***************************************************************************)
\* C5: for every text the call returns None or an int, and None exactly
\* when the text holds no digit
C5_ParseNeverRaises ==
  (Returned("parse_inr_string") /\ arg.t = "str")
    => /\ ~ret.raised
       /\ ret.val.t \in {"None", "int"}
       /\ ret.val = None <=> ~HasDigit(arg.s)

(***************************************************************************)
(* C6.  Claimed: every descriptor budget_to_desc returns is well formed.   *)
(***************************************************************************)
\* C6: a fixed amount is >= 0, a minimum bound is >= 0, a range has
\* 0 <= min <= max
C6_DescriptorInvariant ==
  (Returned("budget_to_desc") /\ ~ret.raised /\ ret.val # None)
    => CASE ret.val.type = "fixed" -> ret.val.amount >= 0
         [] ret.val.type = "min" -> ret.val.min >= 0
         [] ret.val.type = "range" -> 0 <= ret.val.min /\ ret.val.min <= ret.val.max
         [] OTHER -> FALSE

(***************************************************************************)
(* C7.  Claimed: a retainer table for an unknown employee_size shows a     *)
(* placeholder.                                                            *)
(***************************************************************************)
\* C7: when employee_size is absent or no bucket, the retainer cell is the
\* placeholder and carries no currency glyph
C7_UnknownSizeRendersPlaceholder ==
  ((Returned("build_dm_table") \/ Returned("build_seo_table"))
     /\ arg \notin Buckets /\ arg.t \in {"None", "str"})
    => /\ ~ret.raised
       /\ ret.val.rows[1].cell \in {Dash, Dash \o PerMonth}
       /\ ~Contains(ret.val.rows[1].cell, <<"₹">>)

(***************************************************************************)
(* C8.  The retainer row and the two notes of the summary.                 *)
(***************************************************************************)
RouteData ==
  IF arg.body = "object" THEN arg.data ELSE EmptyRequest

RetainerCells ==
  { <<PyStr(<<"Digital Marketing">>), PyStr(<<"0-10">>),
      <<"₹", "2", "5", ",", "0", "0", "0", "/", " ", "m", "o", "n", "t", "h">>>>,
    <<PyStr(<<"Digital Marketing">>), PyStr(<<"10-100">>),
      <<"₹", "4", "0", ",", "0", "0", "0", "/", " ", "m", "o", "n", "t", "h">>>>,
    <<PyStr(<<"Digital Marketing">>), PyStr(<<"100+">>),
      <<"₹", "7", "0", ",", "0", "0", "0", "/", " ", "m", "o", "n", "t", "h">>>>,
    <<PyStr(<<"SEO">>), PyStr(<<"0-10">>),
      <<"₹", "1", "0", ",", "0", "0", "0", "/", " ", "m", "o", "n", "t", "h">>>>,
    <<PyStr(<<"SEO">>), PyStr(<<"10-100">>),
      <<"₹", "1", "5", ",", "0", "0", "0", "/", " ", "m", "o", "n", "t", "h">>>>,
    <<PyStr(<<"SEO">>), PyStr(<<"100+">>),
      <<"₹", "2", "0", ",", "0", "0", "0", "/", " ", "m", "o", "n", "t", "h">>>> }

\* C8: in every summary either route builds, a retainer category has the
\* single Monthly Retainer row with the price of the bucket, the 6-month
\* note and no indicative-pricing note; every other category has the
\* indicative-pricing note and no 6-month note
C8_RetainerRowAndExactlyOneNote ==
  ((Returned("summarize") \/ Returned("save_user_data")) /\ ret.summary_html.built)
    => LET s == ret.summary_html
           d == RouteData
       IN  IF d.category \in Retainer
           THEN /\ s.min_term_note = MinTermNote
                /\ s.general_note = <<>>
                /\ Len(s.estimate_table_html.rows) = 1
                /\ s.estimate_table_html.rows[1].label = <<"Monthly Retainer">>
                /\ ~s.estimate_table_html.has_total
                /\ d.employee_size \in Buckets =>
                     <<d.category, d.employee_size,
                       s.estimate_table_html.rows[1].cell>> \in RetainerCells
           ELSE /\ s.min_term_note = <<>>
                /\ s.general_note = GeneralNote

C8_Witness ==
  /\ Returned("save_user_data")
  /\ ret.status = 200
  /\ arg.data.category = PyStr(<<"Digital Marketing">>)
  /\ arg.data.employee_size = PyStr(<<"10-100">>)
  /\ ret.summary_html.min_term_note = MinTermNote
  /\ ret.summary_html.general_note = <<>>
  /\ ret.summary_html.estimate_table_html.rows[1].cell =
       <<"₹", "4", "0", ",", "0", "0", "0", "/", " ", "m", "o", "n", "t", "h">>

(***************************************************************************)
(* C9.  Bases that are multiples of 100 are split exactly.                 *)
(***************************************************************************)
AppLikePercents == <<15, 30, 30, 10, 10, 5>>

WebPercents == <<20, 50, 10, 10, 10>>

\* C9: for both itemized tables and every base that is a non-negative
\* multiple of 100, row i shows base * p_i / 100 and the total shows base;
\* Web Development with base 100000 shows 20000, 50000, 10000, 10000, 10000
\* and the total 100000
C9_ExactForMultiplesOfHundred ==
  (IsItemizedCall /\ ItemizedBase % 100 = 0)
    => LET ps == IF fn = "build_web_table" THEN WebPercents ELSE AppLikePercents
       IN  /\ Len(ret.val.rows) = Len(ps)
           /\ \A i \in 1..Len(ps) :
                ret.val.rows[i].cell = inr(PyInt((ItemizedBase \div 100) * ps[i]))
           /\ ret.val.total = inr(PyInt(ItemizedBase))
           /\ (fn = "build_web_table" /\ ItemizedBase = 100000) =>
                /\ [i \in 1..5 |-> ret.val.rows[i].cell] =
                     << <<"₹", "2", "0", ",", "0", "0", "0">>,
                        <<"₹", "5", "0", ",", "0", "0", "0">>,
                        <<"₹", "1", "0", ",", "0", "0", "0">>,
                        <<"₹", "1", "0", ",", "0", "0", "0">>,
                        <<"₹", "1", "0", ",", "0", "0", "0">> >>
                /\ ret.val.total = <<"₹", "1", "0", "0", ",", "0", "0", "0">>

C9_Witness ==
  /\ Returned("build_web_table")
  /\ arg = [type |-> "fixed", amount |-> 100000]
  /\ ret.val.rows[2] = [label |-> <<"Web Development">>,
                        cell |-> <<"₹", "5", "0", ",", "0", "0", "0">>]
  /\ ret.val.total = <<"₹", "1", "0", "0", ",", "0", "0", "0">>

(***************************************************************************)
(* C10.  The order in which a label is classified.                         *)
(***************************************************************************)
NoOverride == arg.budget_amount \in {None, PyInt(0), PyStr(<<>>)}

\* C10: with no override, an absent or empty label gives None; otherwise the
\* first test that matches decides: "0 <" gives Range(0, 50000), "₹50K" with
\* "₹1L" gives Range(50000, 100000), "₹1L" with "₹5L" gives
\* Range(100000, 500000), ">" gives MinimumBound(500000), and a label that
\* matches none gives None
C10_LabelClassifiedInOrder ==
  (Returned("budget_to_desc") /\ NoOverride)
    => IF arg.budget \in {None, PyStr(<<>>), PyInt(0)}
       THEN ret = Ok(None)
       ELSE LET b == StrOf(arg.budget)
            IN  CASE Contains(b, <<"0", " ", "<">>) ->
                       ret = Ok([type |-> "range", min |-> 0, max |-> 50000])
                  [] /\ ~Contains(b, <<"0", " ", "<">>)
                     /\ Contains(b, <<"₹", "5", "0", "K">>)
                     /\ Contains(b, <<"₹", "1", "L">>) ->
                       ret = Ok([type |-> "range", min |-> 50000, max |-> 100000])
                  [] /\ ~Contains(b, <<"0", " ", "<">>)
                     /\ ~Contains(b, <<"₹", "5", "0", "K">>)
                     /\ Contains(b, <<"₹", "1", "L">>)
                     /\ Contains(b, <<"₹", "5", "L">>) ->
                       ret = Ok([type |-> "range", min |-> 100000, max |-> 500000])
                  [] /\ ~Contains(b, <<"0", " ", "<">>)
                     /\ ~(Contains(b, <<"₹", "1", "L">>)
                            /\ (Contains(b, <<"₹", "5", "0", "K">>)
                                  \/ Contains(b, <<"₹", "5", "L">>)))
                     /\ Contains(b, <<">">>) ->
                       ret = Ok([type |-> "min", min |-> 500000])
                  [] OTHER -> ret = Ok(None)

\* a label that passes the first test and the last: the first decides
C10_Witness ==
  /\ Returned("budget_to_desc")
  /\ arg.budget_amount = None
  /\ arg.budget = PyStr(<<"0", " ", "<", ">">>)
  /\ ret = Ok([type |-> "range", min |-> 0, max |-> 50000])

(***************************************************************************)
(* C11.  What materialize_budget_amount makes of each descriptor.          *)
(***************************************************************************)
\* the descriptors budget_to_desc returns for a label
ClassifierRanges ==
  { [type |-> "range", min |-> 0, max |-> 50000],
    [type |-> "range", min |-> 50000, max |-> 100000],
    [type |-> "range", min |-> 100000, max |-> 500000] }

\* r is (lo + hi) / 2 rounded to the nearest integer, a tie to the even one
IsRoundedMidpoint(r, lo, hi) ==
  /\ 2 * r - (lo + hi) \in {-1, 0, 1}
  /\ 2 * r # lo + hi => r % 2 = 0

\* C11: a fixed descriptor gives its amount, a range gives
\* round((min + max) / 2), a minimum bound gives its min, null gives null;
\* the base of a range with min <= max lies within [min, max], and
\* Range(50000, 100000) gives 75000
C11_MaterializeByDescriptorType ==
  Returned("materialize_budget_amount")
    => /\ ~ret.raised
       /\ IF arg = None THEN ret.val = None
          ELSE CASE arg.type = "fixed" -> ret.val = PyInt(arg.amount)
                 [] arg.type = "min" -> ret.val = PyInt(arg.min)
                 [] arg.type = "range" ->
                      /\ ret.val.t = "int"
                      /\ IsRoundedMidpoint(ret.val.n, arg.min, arg.max)
                      /\ arg.min <= arg.max =>
                           arg.min <= ret.val.n /\ ret.val.n <= arg.max
                      /\ arg \in ClassifierRanges =>
                           2 * ret.val.n = arg.min + arg.max
                      /\ arg = [type |-> "range", min |-> 50000, max |-> 100000]
                           => ret.val = PyInt(75000)
                 [] OTHER -> ret.val = None

C11_Witness ==
  /\ Returned("materialize_budget_amount")
  /\ arg = [type |-> "range", min |-> 50000, max |-> 100000]
  /\ ret = Ok(PyInt(75000))

(***************************************************************************)
(* C12.  The unit multipliers of parse_inr_string.                         *)
(***************************************************************************)
IsNumeric(ch) == IsDigit(ch) \/ ch = "."

\* the text once surrounding whitespace, every rupee sign, comma and space
\* are gone and the letters are upper case
CleanText == Remove(Remove(Remove(Upper(Strip(arg.s)), "₹"), ","), " ")

NumericRun == SelectSeq(CleanText, IsNumeric)

UnitToken == SelectSeq(CleanText, LAMBDA ch : ~IsNumeric(ch))

\* the multipliers as the claim lists them
ClaimedMultiplier(unit) ==
  CASE unit = <<"K">> -> 1000
    [] unit = <<"L">> -> 100000
    [] unit = <<"L", "A", "K", "H">> -> 100000
    [] unit = <<"L", "A", "K", "H", "S">> -> 100000
    [] unit = <<"L", "A", "C">> -> 100000
    [] unit = <<"C", "R">> -> 10000000
    [] unit = <<"C", "R", "O", "R", "E">> -> 10000000
    [] OTHER -> 1

\* a numeric run float() reads: at most one point, at least one digit
WellFormedRun(num) ==
  /\ Cardinality({i \in 1..Len(num) : num[i] = "."}) <= 1
  /\ HasDigit(num)

\* r is the integer nearest to num / den, the even one of two equally near
IsNearest(r, num, den) ==
  /\ 2 * (r * den - num) \in (-den)..den
  /\ 2 * (r * den - num) \in {-den, den} => r % 2 = 0

ParseExpected ==
  { << <<"₹", "5", "0", ",", "0", "0", "0">>, Ok(PyInt(50000)) >>,
    << <<"1", ".", "5", "L">>, Ok(PyInt(150000)) >>,
    << <<"2", "C", "r">>, Ok(PyInt(20000000)) >>,
    << <<"K">>, Ok(None) >>,
    << <<>>, Ok(None) >> }

\* C12: for a text whose numeric run is empty the result is null; for a text
\* whose numeric run is a number the result is that number times the
\* multiplier of the unit token (K 1,000; L, LAKH, LAKHS, LAC 100,000;
\* CR, CRORE 10,000,000; anything else 1), rounded to the nearest integer;
\* "₹50,000" gives 50000, "1.5L" 150000, "2Cr" 20000000, "K" and "" null
C12_NumericRunTimesUnitMultiplier ==
  (Returned("parse_inr_string") /\ arg.t = "str")
    => /\ NumericRun = <<>> => ret = Ok(None)
       /\ WellFormedRun(NumericRun) =>
            /\ ~ret.raised
            /\ ret.val.t = "int"
            /\ IsNearest(ret.val.n,
                         DigitsValue(Remove(NumericRun, "."))
                           * ClaimedMultiplier(UnitToken),
                         Pow10(FracLen(NumericRun)))
       /\ \A e \in ParseExpected : arg.s = e[1] => ret = e[2]

C12_Witness ==
  /\ Returned("parse_inr_string")
  /\ arg = PyStr(<<"2", "L", "A", "C">>)
  /\ ret = Ok(PyInt(200000))

Attempts(effects, kind) == {i \in 1..Len(effects) : effects[i].kind = kind}

Succeeded(effects, kind) == \E i \in Attempts(effects, kind) : effects[i].ok

\* C14: the driver insert is attempted, and first, whenever the driver is
\* ready and the collection is the leads or the applications collection,
\* and never otherwise; the Data API insert is attempted only when no
\* driver insert was attempted or the one attempted failed; ok with backend
\* "mongo" exactly when the driver insert succeeded, ok with backend
\* "data_api" exactly when the Data API insert succeeded, not ok with
\* backend "none" and id null exactly when neither did; each backend is
\* attempted at most once and at most one insert succeeds
C14_DriverFirstThenDataApi ==
  Returned("save_doc_resilient")
    => LET e == ret.effects
           known == arg.collection \in {MONGO_COLLECTION, MONGO_APPLICATIONS_COLLECTION}
       IN  /\ Attempts(e, "mongo") = IF arg.env.MONGO_READY /\ known THEN {1} ELSE {}
           /\ Attempts(e, "data_api") # {} =>
                /\ ~Succeeded(e, "mongo")
                /\ Attempts(e, "data_api") = {Len(e)}
           /\ (ret.ok /\ ret.backend = "mongo") <=> Succeeded(e, "mongo")
           /\ (ret.ok /\ ret.backend = "data_api") <=> Succeeded(e, "data_api")
           /\ (~ret.ok /\ ret.backend = "none" /\ ret.id = "None")
                <=> ~(Succeeded(e, "mongo") \/ Succeeded(e, "data_api"))
           /\ ret.backend \in {"mongo", "data_api", "none"}
           /\ ret.ok <=> ret.backend # "none"
           /\ Cardinality({i \in 1..Len(e) : e[i].ok}) <= 1

\* the driver insert raises and the Data API insert takes the document
C14_Witness ==
  /\ Returned("save_doc_resilient")
  /\ arg.collection = MONGO_COLLECTION
  /\ ret.effects = <<Effect("mongo", 0, FALSE), Effect("data_api", 0, TRUE)>>
  /\ ret.ok
  /\ ret.backend = "data_api"

(***************************************************************************)
(* C15.  One pass over the API, one fallback pass over SMTP.               *)
(***************************************************************************)
\* the sends over kind, in the order they were made
SendsOf(effects, kind) == SelectSeq(effects, LAMBDA x : x.kind = kind)

\* one send to each of the n recipients, in order, with the given outcomes
OncePerRecipient(sends, kind, n, oks) ==
  /\ Len(sends) = n
  /\ \A i \in 1..n : sends[i] = Effect(kind, i, oks[i])

\* C15: with at least one recipient, the API is attempted once per
\* recipient when the transport is auto or api, and not at all otherwise;
\* SMTP is attempted, once per recipient and after every API send, exactly
\* when the transport is auto or smtp and no API send succeeded; no
\* transport is attempted twice for a recipient, no recipient is delivered
\* the message over both transports, and the call reports success exactly
\* when a send succeeded; with no recipient nothing is attempted
C15_SingleTwoStepFallback ==
  Returned("send_sales_email")
    => LET e == ret.effects
           n == arg.SALES_EMAILS
           api == SendsOf(e, "api")
           smtp == SendsOf(e, "smtp")
           try_api == n > 0 /\ arg.SENDGRID_TRANSPORT \in {"auto", "api"}
           try_smtp == /\ n > 0 /\ arg.SENDGRID_TRANSPORT \in {"auto", "smtp"}
                       /\ \A i \in 1..Len(api) : ~api[i].ok
       IN  /\ IF try_api THEN OncePerRecipient(api, "api", n, arg.api_ok)
                         ELSE api = <<>>
           /\ IF try_smtp THEN OncePerRecipient(smtp, "smtp", n, arg.smtp_ok)
                          ELSE smtp = <<>>
           /\ e = api \o smtp
           /\ \A i, j \in 1..Len(e) :
                (e[i].kind = e[j].kind /\ e[i].to = e[j].to) => i = j
           /\ \A i, j \in 1..Len(e) :
                (e[i].ok /\ e[j].ok /\ e[i].to = e[j].to) => i = j
           /\ ret.ok <=> \E i \in 1..Len(e) : e[i].ok

\* two recipients, every API send fails, the second SMTP send succeeds
C15_Witness ==
  /\ Returned("send_sales_email")
  /\ arg.SENDGRID_TRANSPORT = "auto"
  /\ ret.effects = <<Effect("api", 1, FALSE), Effect("api", 2, FALSE),
                     Effect("smtp", 1, FALSE), Effect("smtp", 2, TRUE)>>
  /\ ret.ok

(***************************************************************************)
(* C16.  Claimed: upload_cv rejects with 400, 400 and 413 in the order of  *)
(* its three checks and has no side effect for a rejected upload.          *)
(***************************************************************************)
HasNamedFile == arg.file = "present" /\ arg.filename # <<>>

\* the name ends in a point followed by pdf, in either case
HasPdfExtension ==
  \E i \in 1..Len(arg.filename) :
    /\ arg.filename[i] = "."
    /\ Len(arg.filename) = i + 3
    /\ arg.filename[i + 1] \in {"p", "P"}
    /\ arg.filename[i + 2] \in {"d", "D"}
    /\ arg.filename[i + 3] \in {"f", "F"}

WithinSizeLimit == arg.size <= 5 * 1024 * 1024

\* C16: a request without a named file is answered 400, else one whose
\* extension is not pdf is answered 400, else one whose file is longer than
\* 5 MB is answered 413, each without any file written, mail sent or record
\* stored; the file is written, the mail sent and the record stored only
\* for a request that passed the three checks
C16_RejectedUploadHasNoSideEffect ==
  Returned("upload_cv")
    => /\ ~HasNamedFile => (ret.status = 400 /\ ret.effects = <<>>)
       /\ (HasNamedFile /\ ~HasPdfExtension) => (ret.status = 400 /\ ret.effects = <<>>)
       /\ (HasNamedFile /\ HasPdfExtension /\ ~WithinSizeLimit)
            => (ret.status = 413 /\ ret.effects = <<>>)
       /\ ret.effects # <<>> => (HasNamedFile /\ HasPdfExtension /\ WithinSizeLimit)

\* the part of C16 that holds: whatever the answer, something is written,
\* sent or stored only for a request that passed the three checks, and an
\* answer of 400 or 413 comes with no side effect
C16_SideEffectsOnlyAfterTheChecks ==
  Returned("upload_cv")
    => /\ ret.effects # <<>> => (HasNamedFile /\ HasPdfExtension /\ WithinSizeLimit)
       /\ ret.status \in {400, 413} => ret.effects = <<>>
       /\ ret.status = 413 => (HasNamedFile /\ HasPdfExtension /\ ~WithinSizeLimit)
       /\ ret.status = 400 => ~(HasNamedFile /\ HasPdfExtension)

(***************************************************************************)
(* C17.  Claimed: save_user_data stores the lead, then sends the email     *)
(* whatever the store did, and answers ok=true with the two outcomes       *)
(* whenever neither step raised.                                           *)
(***************************************************************************)
IsInsert(x) == x.kind \in {"mongo", "data_api"}

IsSend(x) == x.kind \in {"api", "smtp"}

\* the environment gives send_sales_email something to attempt
EmailDue ==
  arg.env.SALES_EMAILS > 0 /\ arg.env.SENDGRID_TRANSPORT \in {"auto", "api", "smtp"}

\* the answer carries the outcomes the two steps had
ReportsOutcomes ==
  LET e == ret.effects
  IN  /\ ret.status = 200 /\ ret.ok
      /\ ret.db_saved <=> \E i \in 1..Len(e) : IsInsert(e[i]) /\ e[i].ok
      /\ ret.email_sent <=> \E i \in 1..Len(e) : IsSend(e[i]) /\ e[i].ok
      /\ ret.mongo_saved <=> (ret.db_backend = "mongo" /\ ret.db_saved)
      /\ ret.mongo_saved <=> \E i \in 1..Len(e) : e[i].kind = "mongo" /\ e[i].ok

\* every insert attempted precedes every send attempted
InsertsBeforeSends ==
  \A i, j \in 1..Len(ret.effects) :
    (IsInsert(ret.effects[i]) /\ IsSend(ret.effects[j])) => i < j

\* C17: for every request whose body is a JSON object or empty, the inserts
\* come before the sends, the email is attempted whenever there is a
\* recipient and a transport, whatever the store did, and (the store and
\* the email never raising) the answer is ok=true, with db_saved and
\* email_sent the outcomes of the two steps and mongo_saved true only for a
\* successful save by the driver
C17_StoreThenEmailAlways ==
  (Returned("save_user_data") /\ arg.body # "array")
    => /\ InsertsBeforeSends
       /\ EmailDue => \E i \in 1..Len(ret.effects) : IsSend(ret.effects[i])
       /\ ReportsOutcomes

\* the request is a JSON object (or none) for which the estimate is rendered
EstimateRendered ==
  arg.body # "array" /\ ~build_estimate_table_only(RouteData).raised

\* the part of C17 that holds: when the request is an object whose estimate
\* is rendered, the claim holds as stated; otherwise the answer is 500 with
\* no email attempted, and that is the only way to a 500: a failed store or
\* a failed email never is
C17_StoreThenEmailWhenEstimateRendered ==
  Returned("save_user_data")
    => /\ InsertsBeforeSends
       /\ IF EstimateRendered
          THEN /\ EmailDue => \E i \in 1..Len(ret.effects) : IsSend(ret.effects[i])
               /\ ReportsOutcomes
          ELSE /\ ret.status = 500 /\ ~ret.ok
               /\ \A i \in 1..Len(ret.effects) : ~IsSend(ret.effects[i])

====
